---- MODULE Spec2Model ----
(***************************************************************************)
(* Model of aiocqhttp/api.py: the action-invocation layer.                 *)
(*                                                                         *)
(*   _SequenceGenerator   the correlation-id counter                       *)
(*   ResultStore          seq -> asyncio.Future table (add / fetch)        *)
(*   HttpApi              one POST per call                                *)
(*   WebSocketReverseApi  frame over a registered connection, then fetch   *)
(*   UnifiedApi           WebSocket first, HTTP on ApiNotAvailable         *)
(*                                                                         *)
(* Every `await` of the source is a suspension point: the part of a        *)
(* coroutine between two awaits is one action.  ResultStore.add is called  *)
(* by the inbound-message handler, a different task of the same loop, so   *)
(* it interleaves with the calls at their suspension points.               *)
(***************************************************************************)
EXTENDS Integers, FiniteSets, Sequences, TLC

VARIABLES
    clients,    \* WebSocketReverseApi._clients: the registered identities
    wsrApi,     \* UnifiedApi._wsr_api is set
    httpApi,    \* UnifiedApi._http_api: "none" | "noroot" | "root"
    _seq,       \* _SequenceGenerator._seq
    _futures,   \* ResultStore._futures: seq -> the call owning the future
    fut,        \* per call: the asyncio.Future created by its fetch
    pc,         \* per call: position of the coroutine
    seq,        \* per call: local `seq` of WebSocketReverseApi.call_action
    outcome,    \* per call: what UnifiedApi.call_action returned or raised
    wsrOut,     \* per call: what WebSocketReverseApi.call_action returned or raised
    wsrCalls,   \* per call: invocations of WebSocketReverseApi.call_action
    httpCalls,  \* per call: invocations of HttpApi.call_action
    httpOut,    \* per call: what HttpApi.call_action returned or raised
    lastAdd,    \* effect of the ResultStore.add that ran in the last step
    sent,       \* frames sent over the registered connections, in all
    post,       \* per call: the POST of HttpApi.call_action and what came back
    args,       \* selection check: the context identity and self_id of a call
    api_ws,     \* selection check: local `api_ws` of WebSocketReverseApi.call_action
    issued,     \* generator check: the ids returned by next, in order
    reply,      \* extraction check: a decoded reply and the transport it came by
    extracted   \* extraction check: what the transport made of it

vars == <<clients, wsrApi, httpApi, _seq, _futures, fut, pc, seq, outcome,
          wsrOut, wsrCalls, httpCalls, httpOut, lastAdd, sent, post,
          args, api_ws, issued, reply, extracted>>

(* the variables of the checks of single functions *)
aux == <<args, api_ws, issued, reply, extracted>>

----------------------------------------------------------------------------
(* Bounds *)

NumCalls == 2

(* calls of next in one run of the generator *)
MaxNext == 8

(* how far before the wrap the counter of the generator may start *)
WrapWindow == 12

Calls == 1..NumCalls

(* sys.maxsize, of a 32-bit build (2^31 - 1) *)
MaxSize == 2147483647

----------------------------------------------------------------------------
(* Values *)

Ids == {"0", "1", "2"}          \* X-Self-ID values / registry keys

NoCtx == "noctx"                \* event_ws is unbound (falsy)
NoSid == -1                     \* params has no 'self_id' (or None)
NoWs  == "nows"                 \* api_ws = None
NoSeq == -1                     \* no integer at echo.seq

Ctxs == Ids \cup {NoCtx}
Sids == {NoSid, 0, 1, 2}

Null == "null"                  \* None

(* str(self_id) for the integers of Sids *)
Str(n) == CASE n = 0 -> "0" [] n = 1 -> "1" [] n = 2 -> "2" [] OTHER -> "None"

Absent    == "absent"           \* the key is not in the result object
NoRetcode == -1000000           \* result.get('retcode') is None

(* A decoded reply: whether it is a dict, and its status / retcode / data. *)
Result(st, rc, d) == [isdict |-> TRUE, status |-> st, retcode |-> rc, data |-> d]

(* A decoded reply that is no dict (a JSON list, string, number, null).    *)
NotADict == [isdict |-> FALSE, status |-> Absent, retcode |-> NoRetcode,
             data |-> Absent]

(* The replies of the calls. *)
Frames ==
    { Result("ok", 0, Null), Result("ok", 0, "d1"), Result("failed", 100, Null) }

(* The replies of the extraction check. *)
Results ==
    { Result(st, rc, d) : st \in {"ok", "failed", "async", Absent},
                          rc \in {0, 100, NoRetcode},
                          d \in {"d1", Null, Absent} } \cup {NotADict}

NoFrame == Result("none", 0, Null)

(* no reply at hand *)
NoReply == [via |-> "none", result |-> NoFrame]

(* a call that holds no future: before its fetch, and after it *)
NoFuture == [state |-> "none", result |-> NoFrame]

(* What a call returned ("ok") or raised (any other kind). *)
Out(k, d, n, m) == [kind |-> k, data |-> d, code |-> n, msg |-> m]

NoOut        == Out("none", Null, 0, "")
Unavailable  == Out("ApiNotAvailable", Null, 0, "")
Cancelled    == Out("CancelledError", Null, 0, "")
WsTimeout    == Out("NetworkError", Null, 0, "WebSocket API call timeout")
UrlInvalid   == Out("NetworkError", Null, 0, "API root url invalid")
ClientFailed == Out("NetworkError", Null, 0, "HTTP request failed with client error")
SendFailed   == Out("SendError", Null, 0, "")
SlotMissing  == Out("KeyError", Null, 0, "")
BodyInvalid  == Out("ValueError", Null, 0, "")

(* result.get('data'): None when the key is absent *)
GetData(result) == IF result.data = Absent THEN Null ELSE result.data

(* mutant: `if result.get('status') != 'ok'` *)
_handle_api_result_NotOk(result) ==
    IF ~result.isdict THEN Out("ok", Null, 0, "")
    ELSE IF result.status # "ok"
    THEN Out("ActionFailed", Null, result.retcode, "")
    ELSE Out("ok", GetData(result), 0, "")

(* _handle_api_result: None for what is no dict *)
_handle_api_result(result) ==
    IF ~result.isdict THEN Out("ok", Null, 0, "")
    ELSE IF result.status = "failed"
    THEN Out("ActionFailed", Null, result.retcode, "")
    ELSE Out("ok", GetData(result), 0, "")

(* mutant: the counter stops at the bound instead of wrapping *)
NextSeq_Saturating(s) == IF s + 1 >= MaxSize THEN s ELSE s + 1

(* _SequenceGenerator.next: the new value of the counter *)
NextSeq(s) == (s + 1) % MaxSize


----------------------------------------------------------------------------
(* WebSocketReverseApi: connection selection *)

(* _is_available: the event websocket is bound and its identity registered *)
_is_available(cl, ctx) == ctx # NoCtx /\ ctx \in cl

(* `if params.get('self_id')`: supplied and truthy *)
Truthy(sid) == sid # NoSid /\ sid # 0

(* self._clients.get(key) *)
ClientsGet(cl, key) == IF key \in cl THEN key ELSE NoWs

(* mutant: the explicit self_id is tried before the context identity *)
Select_SelfIdFirst(cl, ctx, sid) ==
    IF Truthy(sid) THEN ClientsGet(cl, Str(sid))
    ELSE IF _is_available(cl, ctx) THEN ClientsGet(cl, ctx)
    ELSE IF Cardinality(cl) = 1 THEN CHOOSE w \in cl : TRUE
    ELSE NoWs

(* the if / elif / elif chain that sets api_ws *)
Select(cl, ctx, sid) ==
    IF _is_available(cl, ctx) THEN ClientsGet(cl, ctx)
    ELSE IF Truthy(sid) THEN ClientsGet(cl, Str(sid))
    ELSE IF Cardinality(cl) = 1 THEN CHOOSE w \in cl : TRUE
    ELSE NoWs

----------------------------------------------------------------------------
(* UnifiedApi.call_action: what follows the two transports *)

(* return / raise out of UnifiedApi.call_action *)
Finish(c, o) ==
    /\ pc' = [pc EXCEPT ![c] = "done"]
    /\ outcome' = [outcome EXCEPT ![c] = o]

(* mutant: the final raise is missing, so the call returns None *)
RaiseUnavailable_ReturnsNone(c) == Finish(c, Out("ok", Null, 0, ""))

(* `if not succeeded: raise ApiNotAvailable` *)
RaiseUnavailable(c) == Finish(c, Unavailable)

(* mutant: `except Error: pass` *)
FallsThrough_AnyError(o) ==
    o.kind \in {"ApiNotAvailable", "NetworkError", "ActionFailed", "HttpFailed"}

(* `except ApiNotAvailable: pass` *)
FallsThrough(o) == o.kind = "ApiNotAvailable"

(* the HTTP transport returned or raised o *)
AfterHttp(c, o) ==
    /\ httpOut' = [httpOut EXCEPT ![c] = o]
    /\ IF FallsThrough(o)
       THEN RaiseUnavailable(c)
       ELSE Finish(c, o)

(* mutant: `if succeeded and self._http_api` *)
HttpStage_Skipped(c) == RaiseUnavailable(c) /\ UNCHANGED <<httpCalls, httpOut, post>>

(* `if not succeeded and self._http_api`, and HttpApi.call_action up to the POST *)
HttpStage(c) ==
    IF httpApi = "none"
    THEN RaiseUnavailable(c) /\ UNCHANGED <<httpCalls, httpOut, post>>
    ELSE /\ httpCalls' = [httpCalls EXCEPT ![c] = @ + 1]
         /\ IF httpApi = "noroot"
            THEN AfterHttp(c, Unavailable) /\ UNCHANGED post
            ELSE /\ pc' = [pc EXCEPT ![c] = "http_req"]
                 /\ post' = [post EXCEPT ![c].n = @ + 1]
                 /\ UNCHANGED <<outcome, httpOut>>

(* mutant: `if not result and self._http_api`, no `succeeded` flag *)
AfterWsr_ResultTruthy(c, o) ==
    /\ wsrOut' = [wsrOut EXCEPT ![c] = o]
    /\ IF FallsThrough(o) \/ (o.kind = "ok" /\ o.data = Null)
       THEN HttpStage(c)
       ELSE Finish(c, o) /\ UNCHANGED <<httpCalls, httpOut, post>>

(* the WebSocket transport returned or raised o *)
AfterWsr(c, o) ==
    /\ wsrOut' = [wsrOut EXCEPT ![c] = o]
    /\ IF FallsThrough(o)
       THEN HttpStage(c)
       ELSE Finish(c, o) /\ UNCHANGED <<httpCalls, httpOut, post>>

----------------------------------------------------------------------------
(* Actions *)

NoAdd == [eff |-> "none", seq |-> NoSeq]

(* mutant: the future is stored under seq ahead of `await api_ws.send`, *)
(* outside any try/finally                                              *)
CallAction_RegisterFirst(c, ctx, sid) ==
    /\ pc[c] = "idle"
    /\ IF wsrApi
       THEN /\ wsrCalls' = [wsrCalls EXCEPT ![c] = @ + 1]
            /\ IF Select(clients, ctx, sid) = NoWs
               THEN /\ AfterWsr(c, Unavailable)
                    /\ UNCHANGED <<_seq, seq, _futures, fut>>
               ELSE /\ seq' = [seq EXCEPT ![c] = _seq]
                    /\ _seq' = NextSeq(_seq)
                    /\ fut' = [fut EXCEPT ![c] =
                                  [state |-> "pending", result |-> NoFrame]]
                    /\ _futures' = [s \in DOMAIN _futures \cup {_seq} |->
                                        IF s = _seq THEN c ELSE _futures[s]]
                    /\ pc' = [pc EXCEPT ![c] = "wsr_send"]
                    /\ UNCHANGED <<outcome, wsrOut, httpCalls, httpOut, post>>
       ELSE /\ HttpStage(c)
            /\ UNCHANGED <<wsrCalls, wsrOut, _seq, seq, _futures, fut>>
    /\ lastAdd' = NoAdd
    /\ UNCHANGED <<clients, wsrApi, httpApi, sent, aux>>

(* mutant: `seq = _SequenceGenerator.next()` ahead of the selection *)
CallAction_SeqFirst(c, ctx, sid) ==
    /\ pc[c] = "idle"
    /\ IF wsrApi
       THEN /\ wsrCalls' = [wsrCalls EXCEPT ![c] = @ + 1]
            /\ _seq' = NextSeq(_seq)
            /\ IF Select(clients, ctx, sid) = NoWs
               THEN /\ AfterWsr(c, Unavailable)
                    /\ UNCHANGED seq
               ELSE /\ seq' = [seq EXCEPT ![c] = _seq]
                    /\ pc' = [pc EXCEPT ![c] = "wsr_send"]
                    /\ UNCHANGED <<outcome, wsrOut, httpCalls, httpOut, post>>
       ELSE /\ HttpStage(c)
            /\ UNCHANGED <<wsrCalls, wsrOut, _seq, seq>>
    /\ lastAdd' = NoAdd
    /\ UNCHANGED <<clients, wsrApi, httpApi, _futures, fut, sent, aux>>

(* UnifiedApi.call_action up to its first suspension *)
CallAction(c, ctx, sid) ==
    /\ pc[c] = "idle"
    /\ IF wsrApi
       THEN /\ wsrCalls' = [wsrCalls EXCEPT ![c] = @ + 1]
            /\ IF Select(clients, ctx, sid) = NoWs
               THEN /\ AfterWsr(c, Unavailable)
                    /\ UNCHANGED <<_seq, seq>>
               ELSE /\ seq' = [seq EXCEPT ![c] = _seq]
                    /\ _seq' = NextSeq(_seq)
                    /\ pc' = [pc EXCEPT ![c] = "wsr_send"]
                    /\ UNCHANGED <<outcome, wsrOut, httpCalls, httpOut, post>>
       ELSE /\ HttpStage(c)
            /\ UNCHANGED <<wsrCalls, wsrOut, _seq, seq>>
    /\ lastAdd' = NoAdd
    /\ UNCHANGED <<clients, wsrApi, httpApi, _futures, fut, sent, aux>>

(* api_ws.send: the frame has left; the coroutine has not resumed yet *)
WsSend(c) ==
    /\ pc[c] = "wsr_send"
    /\ pc' = [pc EXCEPT ![c] = "wsr_sent"]
    /\ sent' = sent + 1
    /\ lastAdd' = NoAdd
    /\ UNCHANGED <<clients, wsrApi, httpApi, _seq, _futures, fut, seq, outcome,
                   wsrOut, wsrCalls, httpCalls, httpOut, post, aux>>

(* api_ws.send raises *)
WsSendFail(c) ==
    /\ pc[c] = "wsr_send"
    /\ AfterWsr(c, SendFailed)
    /\ lastAdd' = NoAdd
    /\ UNCHANGED <<clients, wsrApi, httpApi, _seq, _futures, fut, seq,
                   wsrCalls, sent, aux>>

(* ResultStore.fetch up to `await asyncio.wait_for(future, 60)` *)
FetchBegin(c) ==
    /\ pc[c] = "wsr_sent"
    /\ fut' = [fut EXCEPT ![c] = [state |-> "pending", result |-> NoFrame]]
    /\ _futures' = [s \in DOMAIN _futures \cup {seq[c]} |->
                        IF s = seq[c] THEN c ELSE _futures[s]]
    /\ pc' = [pc EXCEPT ![c] = "wsr_wait"]
    /\ lastAdd' = NoAdd
    /\ UNCHANGED <<clients, wsrApi, httpApi, _seq, seq, outcome,
                   wsrOut, wsrCalls, httpCalls, httpOut, sent, post, aux>>

(* `del cls._futures[seq]`: the store without s *)
DelSlot(s) == [t \in DOMAIN _futures \ {s} |-> _futures[t]]

(* mutant: no finally clause *)
FetchExit_NoDel(c, o) ==
    /\ fut' = [fut EXCEPT ![c] = NoFuture]
    /\ UNCHANGED _futures
    /\ AfterWsr(c, o)

(* the exit of fetch: the finally clause, then o (or the KeyError of del) *)
FetchExit(c, o) ==
    /\ fut' = [fut EXCEPT ![c] = NoFuture]
    /\ IF seq[c] \in DOMAIN _futures
       THEN _futures' = DelSlot(seq[c]) /\ AfterWsr(c, o)
       ELSE UNCHANGED _futures /\ AfterWsr(c, SlotMissing)

(* mutant: `await asyncio.wait_for(future, 60)` without `return` *)
FetchReturn_NoResult(c) ==
    /\ pc[c] = "wsr_wait"
    /\ fut[c].state = "done"
    /\ FetchExit(c, Out("ok", Null, 0, ""))
    /\ lastAdd' = NoAdd
    /\ UNCHANGED <<clients, wsrApi, httpApi, _seq, seq, wsrCalls, sent, aux>>

(* wait_for returns the result of the future; _handle_api_result *)
FetchReturn(c) ==
    /\ pc[c] = "wsr_wait"
    /\ fut[c].state = "done"
    /\ FetchExit(c, _handle_api_result(fut[c].result))
    /\ lastAdd' = NoAdd
    /\ UNCHANGED <<clients, wsrApi, httpApi, _seq, seq, wsrCalls, sent, aux>>

(* mutant: no `except asyncio.TimeoutError` clause *)
FetchTimeout_Uncaught(c) ==
    /\ pc[c] = "wsr_wait"
    /\ fut[c].state = "pending"
    /\ FetchExit(c, Out("TimeoutError", Null, 0, ""))
    /\ lastAdd' = NoAdd
    /\ UNCHANGED <<clients, wsrApi, httpApi, _seq, seq, wsrCalls, sent, aux>>

(* mutant: `await future` with no wait_for, so no deadline ever expires *)
FetchTimeout_NoDeadline(c) ==
    /\ pc[c] = "wsr_wait"
    /\ FALSE
    /\ UNCHANGED vars

(* wait_for raises TimeoutError: the future is still pending after 60 s *)
FetchTimeout(c) ==
    /\ pc[c] = "wsr_wait"
    /\ fut[c].state = "pending"
    /\ FetchExit(c, WsTimeout)
    /\ lastAdd' = NoAdd
    /\ UNCHANGED <<clients, wsrApi, httpApi, _seq, seq, wsrCalls, sent, aux>>

(* the task running the call is cancelled at its suspension point *)
Cancel(c) ==
    /\ pc[c] \in {"wsr_send", "wsr_sent", "wsr_wait", "http_req"}
    /\ CASE pc[c] = "wsr_wait" ->
                FetchExit(c, Cancelled)
         [] pc[c] = "http_req" ->
                /\ AfterHttp(c, Cancelled)
                /\ UNCHANGED <<_futures, fut, wsrOut, httpCalls, post>>
         [] OTHER ->
                /\ AfterWsr(c, Cancelled)
                /\ UNCHANGED <<_futures, fut>>
    /\ lastAdd' = NoAdd
    /\ UNCHANGED <<clients, wsrApi, httpApi, _seq, seq, wsrCalls, sent, aux>>

(* mutant: add fulfils the oldest pending future, whatever seq the reply has *)
Add_Oldest(s, f) ==
    /\ LET pend == {t \in DOMAIN _futures : fut[_futures[t]].state = "pending"}
       IN  IF s # NoSeq /\ s \in DOMAIN _futures
           THEN IF pend # {}
                THEN /\ fut' = [fut EXCEPT
                                  ![_futures[CHOOSE t \in pend :
                                                \A u \in pend : t <= u]] =
                                      [state |-> "done", result |-> f]]
                     /\ lastAdd' = [eff |-> "set_result", seq |-> s]
                ELSE /\ lastAdd' = [eff |-> "InvalidStateError", seq |-> s]
                     /\ UNCHANGED fut
           ELSE /\ lastAdd' = [eff |-> "ignored", seq |-> s]
                /\ UNCHANGED fut
    /\ UNCHANGED <<clients, wsrApi, httpApi, _seq, _futures, pc, seq, outcome,
                   wsrOut, wsrCalls, httpCalls, httpOut, sent, post, aux>>

(* ResultStore.add(result), result['echo']['seq'] = s (NoSeq: no integer there) *)
Add(s, f) ==
    /\ IF s # NoSeq /\ s \in DOMAIN _futures
       THEN IF fut[_futures[s]].state = "pending"
            THEN /\ fut' = [fut EXCEPT ![_futures[s]] =
                                [state |-> "done", result |-> f]]
                 /\ lastAdd' = [eff |-> "set_result", seq |-> s]
            ELSE /\ lastAdd' = [eff |-> "InvalidStateError", seq |-> s]
                 /\ UNCHANGED fut
       ELSE /\ lastAdd' = [eff |-> "ignored", seq |-> s]
            /\ UNCHANGED fut
    /\ UNCHANGED <<clients, wsrApi, httpApi, _seq, _futures, pc, seq, outcome,
                   wsrOut, wsrCalls, httpCalls, httpOut, sent, post, aux>>

(* what the POST of a call produced: nothing yet, a response with its     *)
(* status code, or an exception of aiohttp                                 *)
Posted(n, r, st) == [n |-> n, res |-> r, status |-> st]

(* mutant: `if 200 <= resp.status <= 300` *)
HttpResult_Inclusive(st, f) ==
    IF 200 <= st /\ st <= 300
    THEN _handle_api_result(f)
    ELSE Out("HttpFailed", Null, st, "")

(* `if 200 <= resp.status < 300: return ...` / `raise HttpFailed(resp.status)` *)
HttpResult(st, f) ==
    IF 200 <= st /\ st < 300
    THEN _handle_api_result(f)
    ELSE Out("HttpFailed", Null, st, "")

(* HttpApi.call_action: the response has status code st and body f *)
HttpResponse(c, st, f) ==
    /\ pc[c] = "http_req"
    /\ AfterHttp(c, HttpResult(st, f))
    /\ post' = [post EXCEPT ![c] = Posted(@.n, "response", st)]
    /\ lastAdd' = NoAdd
    /\ UNCHANGED <<clients, wsrApi, httpApi, _seq, _futures, fut, seq,
                   wsrOut, wsrCalls, httpCalls, sent, aux>>

(* HttpApi.call_action: the body of a 2xx response is no JSON text, so     *)
(* json.loads raises; no except clause catches it                          *)
HttpBadBody(c, st) ==
    /\ pc[c] = "http_req"
    /\ 200 <= st /\ st < 300
    /\ AfterHttp(c, BodyInvalid)
    /\ post' = [post EXCEPT ![c] = Posted(@.n, "response", st)]
    /\ lastAdd' = NoAdd
    /\ UNCHANGED <<clients, wsrApi, httpApi, _seq, _futures, fut, seq,
                   wsrOut, wsrCalls, httpCalls, sent, aux>>

(* the except clauses of HttpApi.call_action *)
HttpExcept(e) == IF e = "InvalidURL" THEN UrlInvalid ELSE ClientFailed

(* HttpApi.call_action: aiohttp raises InvalidURL or another ClientError *)
HttpError(c, e) ==
    /\ pc[c] = "http_req"
    /\ AfterHttp(c, HttpExcept(e))
    /\ post' = [post EXCEPT ![c] = Posted(@.n, e, 0)]
    /\ lastAdd' = NoAdd
    /\ UNCHANGED <<clients, wsrApi, httpApi, _seq, _futures, fut, seq,
                   wsrOut, wsrCalls, httpCalls, sent, aux>>

StatusCodes == {200, 299, 300, 500}

(* echo.seq of an inbound frame: the id of a call, an id no call has *)
(* obtained yet, or no integer at all                                *)
EchoSeqs == {seq[c] : c \in Calls} \cup {_seq, NoSeq}

----------------------------------------------------------------------------
(* Specification of the calls *)

Init ==
    /\ clients \in {{}, {"1"}, {"1", "2"}}
    /\ wsrApi \in BOOLEAN
    /\ httpApi \in {"none", "noroot", "root"}
    /\ _seq = 1
    /\ _futures = <<>>
    /\ fut = [c \in Calls |-> NoFuture]
    /\ pc = [c \in Calls |-> "idle"]
    /\ seq = [c \in Calls |-> NoSeq]
    /\ outcome = [c \in Calls |-> NoOut]
    /\ wsrOut = [c \in Calls |-> NoOut]
    /\ wsrCalls = [c \in Calls |-> 0]
    /\ httpCalls = [c \in Calls |-> 0]
    /\ httpOut = [c \in Calls |-> NoOut]
    /\ lastAdd = NoAdd
    /\ sent = 0
    /\ post = [c \in Calls |-> Posted(0, "none", 0)]
    /\ args = [ctx |-> NoCtx, sid |-> NoSid]
    /\ api_ws = "unset"
    /\ issued = <<>>
    /\ reply = NoReply
    /\ extracted = NoOut

Next ==
    \/ \E c \in Calls, ctx \in Ctxs, sid \in Sids : CallAction(c, ctx, sid)
    \/ \E c \in Calls : WsSend(c)
    \/ \E c \in Calls : WsSendFail(c)
    \/ \E c \in Calls : FetchBegin(c)
    \/ \E c \in Calls : FetchReturn(c)
    \/ \E c \in Calls : FetchTimeout(c)
    \/ \E c \in Calls : Cancel(c)
    \/ \E s \in EchoSeqs, f \in Frames : Add(s, f)
    \/ \E c \in Calls, st \in StatusCodes, f \in Frames : HttpResponse(c, st, f)
    \/ \E c \in Calls, st \in StatusCodes : HttpBadBody(c, st)
    \/ \E c \in Calls, e \in {"InvalidURL", "ClientError"} : HttpError(c, e)

Spec == Init /\ [][Next]_vars

(* The calls under a fair event loop: a send that has begun completes or  *)
(* raises, a coroutine whose send has completed is resumed, and wait_for   *)
(* ends, with the result once the future is done or at its deadline.       *)
(* Nothing obliges a reply to arrive.                                      *)
Fairness ==
    \A c \in Calls :
        /\ WF_vars(WsSend(c) \/ WsSendFail(c))
        /\ WF_vars(FetchBegin(c))
        /\ WF_vars(FetchReturn(c) \/ FetchTimeout(c))

SpecLive == Spec /\ Fairness

----------------------------------------------------------------------------
(* Specification of the calls with the counter wrapping under them.  The   *)
(* process makes any number of calls; MaxSize - 1 of them, each obtaining  *)
(* an id from next and ending when its send raises, bring the counter from *)
(* just after the id of a call in progress round to that id again.         *)

(* MaxSize - 1 times: `seq = _SequenceGenerator.next()`, api_ws.send raises *)
Lap ==
    /\ \E c \in Calls :
          /\ pc[c] \in {"wsr_send", "wsr_sent", "wsr_wait"}
          /\ _seq = NextSeq(seq[c])
          /\ _seq' = seq[c]
    /\ lastAdd' = NoAdd
    /\ UNCHANGED <<clients, wsrApi, httpApi, _futures, fut, pc, seq, outcome,
                   wsrOut, wsrCalls, httpCalls, httpOut, sent, post, aux>>

NextWrap == Next \/ Lap

SpecWrap == Init /\ [][NextWrap]_vars

----------------------------------------------------------------------------
(* Specification of the connection selection alone: one call of            *)
(* WebSocketReverseApi.call_action over every registry, context identity   *)
(* and self_id.                                                            *)

(* WebSocketReverseApi.call_action up to `if not api_ws` *)
SelectCall(ctx, sid) ==
    /\ api_ws = "unset"
    /\ args' = [ctx |-> ctx, sid |-> sid]
    /\ api_ws' = Select(clients, ctx, sid)
    /\ UNCHANGED <<clients, wsrApi, httpApi, _seq, _futures, fut, pc, seq,
                   outcome, wsrOut, wsrCalls, httpCalls, httpOut, lastAdd,
                   sent, post, issued, reply, extracted>>

InitSelect ==
    /\ clients \in SUBSET Ids
    /\ wsrApi = TRUE
    /\ httpApi = "none"
    /\ _seq = 1
    /\ _futures = <<>>
    /\ fut = [c \in Calls |-> NoFuture]
    /\ pc = [c \in Calls |-> "idle"]
    /\ seq = [c \in Calls |-> NoSeq]
    /\ outcome = [c \in Calls |-> NoOut]
    /\ wsrOut = [c \in Calls |-> NoOut]
    /\ wsrCalls = [c \in Calls |-> 0]
    /\ httpCalls = [c \in Calls |-> 0]
    /\ httpOut = [c \in Calls |-> NoOut]
    /\ lastAdd = NoAdd
    /\ sent = 0
    /\ post = [c \in Calls |-> Posted(0, "none", 0)]
    /\ args = [ctx |-> NoCtx, sid |-> NoSid]
    /\ api_ws = "unset"
    /\ issued = <<>>
    /\ reply = NoReply
    /\ extracted = NoOut

NextSelect == \E ctx \in Ctxs, sid \in Sids : SelectCall(ctx, sid)

SpecSelect == InitSelect /\ [][NextSelect]_vars

----------------------------------------------------------------------------
(* Specification of the generator alone: consecutive calls of next, from   *)
(* the counter of a fresh process and from counters close to the wrap.     *)

(* every variable but the counter is as after construction *)
Constructed ==
    /\ _futures = <<>>
    /\ fut = [c \in Calls |-> NoFuture]
    /\ pc = [c \in Calls |-> "idle"]
    /\ seq = [c \in Calls |-> NoSeq]
    /\ outcome = [c \in Calls |-> NoOut]
    /\ wsrOut = [c \in Calls |-> NoOut]
    /\ wsrCalls = [c \in Calls |-> 0]
    /\ httpCalls = [c \in Calls |-> 0]
    /\ httpOut = [c \in Calls |-> NoOut]
    /\ lastAdd = NoAdd
    /\ sent = 0
    /\ post = [c \in Calls |-> Posted(0, "none", 0)]
    /\ args = [ctx |-> NoCtx, sid |-> NoSid]
    /\ api_ws = "unset"
    /\ issued = <<>>
    /\ reply = NoReply
    /\ extracted = NoOut

SeqStarts == {1} \cup {MaxSize - k : k \in 1..WrapWindow}

(* _SequenceGenerator.next *)
SeqNext ==
    /\ Len(issued) < MaxNext
    /\ issued' = Append(issued, _seq)
    /\ _seq' = NextSeq(_seq)
    /\ UNCHANGED <<clients, wsrApi, httpApi, _futures, fut, pc, seq, outcome,
                   wsrOut, wsrCalls, httpCalls, httpOut, lastAdd, sent, post,
                   args, api_ws, reply, extracted>>

InitSeq ==
    /\ clients = {}
    /\ wsrApi = TRUE
    /\ httpApi = "none"
    /\ _seq \in SeqStarts
    /\ Constructed

NextSeqGen == SeqNext

SpecSeq == InitSeq /\ [][NextSeqGen]_vars

----------------------------------------------------------------------------
(* Specification of the result extraction alone: one decoded reply, come   *)
(* by HTTP (the body of a 200 response) or by WebSocket (what fetch        *)
(* returned), and what the transport makes of it.                          *)

(* `return _handle_api_result(...)` of HttpApi and of WebSocketReverseApi *)
Extract ==
    /\ extracted = NoOut
    /\ extracted' = IF reply.via = "http"
                    THEN HttpResult(200, reply.result)
                    ELSE _handle_api_result(reply.result)
    /\ UNCHANGED <<clients, wsrApi, httpApi, _seq, _futures, fut, pc, seq,
                   outcome, wsrOut, wsrCalls, httpCalls, httpOut, lastAdd,
                   sent, post, args, api_ws, issued, reply>>

InitResult ==
    /\ clients = {}
    /\ wsrApi = TRUE
    /\ httpApi = "root"
    /\ _seq = 1
    /\ _futures = <<>>
    /\ fut = [c \in Calls |-> NoFuture]
    /\ pc = [c \in Calls |-> "idle"]
    /\ seq = [c \in Calls |-> NoSeq]
    /\ outcome = [c \in Calls |-> NoOut]
    /\ wsrOut = [c \in Calls |-> NoOut]
    /\ wsrCalls = [c \in Calls |-> 0]
    /\ httpCalls = [c \in Calls |-> 0]
    /\ httpOut = [c \in Calls |-> NoOut]
    /\ lastAdd = NoAdd
    /\ sent = 0
    /\ post = [c \in Calls |-> Posted(0, "none", 0)]
    /\ args = [ctx |-> NoCtx, sid |-> NoSid]
    /\ api_ws = "unset"
    /\ issued = <<>>
    /\ reply \in [via : {"http", "wsr"}, result : Results]
    /\ extracted = NoOut

NextResult == Extract

SpecResult == InitResult /\ [][NextResult]_vars

----------------------------------------------------------------------------
(* Properties *)

InProgress(c) == pc[c] \notin {"idle", "done"}

(* C1: the id of a call is in the store before its frame is sent, so a     *)
(* reply that add handles after the frame has left, while the call is      *)
(* still in progress, is never dropped.                                    *)
C1_NoReplyLost ==
    \A c \in Calls :
        ~ ( /\ pc[c] = "wsr_sent"
            /\ lastAdd = [eff |-> "ignored", seq |-> seq[c]] )

(* C2: a wait whose future was fulfilled with r while it was suspended     *)
(* keeps r until it resumes and then returns r (the call ends with         *)
(* _handle_api_result(r)), unless its task is cancelled first.             *)
C2_WaitReturnsResolved ==
    [][ \A c \in Calls :
          (pc[c] = "wsr_wait" /\ fut[c].state = "done") =>
             /\ pc'[c] = "wsr_wait" => fut'[c] = fut[c]
             /\ (pc'[c] # "wsr_wait" /\ wsrOut'[c] # Cancelled) =>
                   /\ wsrOut'[c] = _handle_api_result(fut[c].result)
                   /\ outcome'[c] = wsrOut'[c] ]_vars

C2_Witness ==
    \E c \in Calls :
        /\ pc[c] = "done"
        /\ wsrOut[c] = Out("ok", "d1", 0, "")

(* C3: once a call has left fetch (result, timeout or cancellation) its    *)
(* id is not in the store, and the store is empty whenever no call is in   *)
(* progress.                                                               *)
C3_NoLeakedSlots ==
    /\ \A c \in Calls : pc[c] = "done" => seq[c] \notin DOMAIN _futures
    /\ (\A c \in Calls : ~InProgress(c)) => DOMAIN _futures = {}

C3_Witness ==
    /\ \A c \in Calls : pc[c] = "done"
    /\ \E c \in Calls : wsrOut[c] = WsTimeout
    /\ \E c \in Calls : wsrOut[c].kind = "ok"

(* C4: add never raises.                                                   *)
C4_AddNeverRaises == lastAdd.eff # "InvalidStateError"

(* C5: a wait that ends while its future is still unfulfilled raises the   *)
(* timeout NetworkError, nothing else (its task being cancelled aside),    *)
(* and its id is then out of the store.                                    *)
C5_TimeoutIsNetworkError ==
    [][ \A c \in Calls :
          ( /\ pc[c] = "wsr_wait"
            /\ fut[c].state = "pending"
            /\ pc'[c] # "wsr_wait"
            /\ wsrOut'[c] # Cancelled ) =>
             /\ wsrOut'[c] = WsTimeout
             /\ outcome'[c] = WsTimeout
             /\ seq[c] \notin DOMAIN _futures' ]_vars

C5_Witness ==
    \E c \in Calls :
        /\ pc[c] = "done"
        /\ outcome[c] = WsTimeout
        /\ seq[c] \notin DOMAIN _futures

(* C6: the HTTP transport is invoked after the WebSocket transport only    *)
(* when that one raised ApiNotAvailable; any other failure of it is the    *)
(* outcome of the call and the HTTP transport is not invoked.              *)
C6_FailoverOnlyOnUnavailable ==
    \A c \in Calls :
        /\ (wsrCalls[c] > 0 /\ httpCalls[c] > 0) => wsrOut[c] = Unavailable
        /\ wsrOut[c].kind \notin {"none", "ok", "ApiNotAvailable"} =>
              /\ pc[c] = "done"
              /\ outcome[c] = wsrOut[c]
              /\ httpCalls[c] = 0

C6_Witness ==
    \E c \in Calls :
        /\ httpApi = "root"
        /\ wsrOut[c] = WsTimeout
        /\ outcome[c] = WsTimeout
        /\ httpCalls[c] = 0

(* C7: when the WebSocket transport raised ApiNotAvailable and an HTTP     *)
(* transport is configured, that one is invoked exactly once and what it   *)
(* returns or raises is the outcome of the call.                           *)
C7_FailoverInvokesHttpOnce ==
    \A c \in Calls :
        (wsrApi /\ wsrOut[c] = Unavailable /\ httpApi # "none") =>
            /\ httpCalls[c] = 1
            /\ pc[c] \in {"http_req", "done"}
            /\ pc[c] = "done" => (httpOut[c] # NoOut /\ outcome[c] = httpOut[c])

C7_Witness ==
    \E c \in Calls :
        /\ wsrApi
        /\ wsrOut[c] = Unavailable
        /\ pc[c] = "done"
        /\ httpOut[c] = Out("ok", "d1", 0, "")
        /\ outcome[c] = httpOut[c]

(* C8: when the WebSocket transport succeeds, its result is the outcome    *)
(* of the call and the HTTP transport is not invoked, also for a None      *)
(* payload.                                                                *)
C8_SuccessSkipsHttp ==
    \A c \in Calls :
        wsrOut[c].kind = "ok" =>
            /\ pc[c] = "done"
            /\ outcome[c] = wsrOut[c]
            /\ httpCalls[c] = 0

C8_Witness ==
    \E c \in Calls :
        /\ httpApi = "root"
        /\ wsrOut[c] = Out("ok", Null, 0, "")
        /\ outcome[c] = wsrOut[c]

(* C9: a call ends with ApiNotAvailable exactly when every configured      *)
(* transport raised ApiNotAvailable for it (none configured included).     *)
C9_UnavailableIffAllUnavailable ==
    \A c \in Calls :
        pc[c] = "done" =>
            ( outcome[c] = Unavailable <=>
                /\ wsrApi => wsrOut[c] = Unavailable
                /\ httpApi # "none" => httpOut[c] = Unavailable )

C9_Witness ==
    \E c \in Calls :
        /\ pc[c] = "done"
        /\ ~wsrApi
        /\ httpApi = "none"
        /\ outcome[c] = Unavailable

(* C10, as claimed: the selected connection is the first registered one    *)
(* among the context identity, the supplied self_id and the sole           *)
(* registered connection.                                                  *)
C10_FirstRegisteredInOrder ==
    api_ws # "unset" =>
        api_ws =
            IF args.ctx \in clients THEN args.ctx
            ELSE IF args.sid # NoSid /\ Str(args.sid) \in clients
                 THEN Str(args.sid)
            ELSE IF Cardinality(clients) = 1 THEN CHOOSE w \in clients : TRUE
            ELSE NoWs

(* C10, amended: the context identity if registered; else, when a truthy   *)
(* self_id is supplied, the connection registered under it and none if     *)
(* there is none; else the sole registered connection, if exactly one.     *)
C10_SelectionOrder ==
    api_ws # "unset" =>
        /\ args.ctx \in clients => api_ws = args.ctx
        /\ (args.ctx \notin clients /\ args.sid \notin {NoSid, 0}) =>
              /\ Str(args.sid) \in clients => api_ws = Str(args.sid)
              /\ Str(args.sid) \notin clients => api_ws = NoWs
        /\ (args.ctx \notin clients /\ args.sid \in {NoSid, 0}) =>
              /\ Cardinality(clients) = 1 => api_ws \in clients
              /\ Cardinality(clients) # 1 => api_ws = NoWs

C10_Witness ==
    /\ api_ws = NoWs
    /\ args.ctx \notin clients
    /\ args.sid \notin {NoSid, 0}
    /\ Str(args.sid) \notin clients
    /\ Cardinality(clients) = 1

(* C11: next never returns 0, and the id returned right after the wrap is  *)
(* 1.                                                                      *)
C11_NeverZero ==
    \A i \in DOMAIN issued :
        /\ issued[i] # 0
        /\ (i > 1 /\ issued[i] < issued[i - 1]) => issued[i] = 1

(* C14: the ids returned by consecutive calls of next, fewer than the      *)
(* bound of the counter, are pairwise distinct.                            *)
C14_ConsecutiveDistinct ==
    \A i, j \in DOMAIN issued : i # j => issued[i] # issued[j]

C14_Witness ==
    /\ Len(issued) = MaxNext
    /\ \E i \in DOMAIN issued : i > 1 /\ issued[i] < issued[i - 1]

(* C12: no two calls wait under the same id at once, and the slot of a     *)
(* waiting call holds its own future: a later call neither replaces nor    *)
(* removes it, also when the counter has wrapped.                          *)
C12_OnePendingPerId ==
    \A c \in Calls :
        pc[c] = "wsr_wait" =>
            /\ seq[c] \in DOMAIN _futures
            /\ _futures[seq[c]] = c
            /\ \A d \in Calls \ {c} : pc[d] = "wsr_wait" => seq[d] # seq[c]

(* C13: a call that completes (its task was not cancelled) returns a       *)
(* payload or raises one of ApiNotAvailable, ActionFailed, HttpFailed,     *)
(* NetworkError.                                                           *)
C13_OutcomeInTaxonomy ==
    \A c \in Calls :
        (pc[c] = "done" /\ outcome[c] # Cancelled) =>
            outcome[c].kind \in {"ok", "ApiNotAvailable", "ActionFailed",
                                 "HttpFailed", "NetworkError"}

(* C15: by either transport, a reply whose status is "failed" yields       *)
(* ActionFailed with the retcode of the reply, and any other reply yields  *)
(* its data (None when it has none), whatever its status is.               *)
C15_SameExtraction ==
    extracted # NoOut =>
        extracted =
            IF reply.result.isdict /\ reply.result.status = "failed"
            THEN Out("ActionFailed", Null, reply.result.retcode, "")
            ELSE IF reply.result.isdict /\ reply.result.data # Absent
            THEN Out("ok", reply.result.data, 0, "")
            ELSE Out("ok", Null, 0, "")

C15_Witness ==
    /\ reply.via = "wsr"
    /\ reply.result.isdict
    /\ reply.result.status = "async"
    /\ extracted = Out("ok", "d1", 0, "")

(* C16: HttpApi.call_action issues at most one POST and none without a     *)
(* root URL, where it raises ApiNotAvailable; a response whose status is   *)
(* not 2xx raises HttpFailed with that status, an InvalidURL or another    *)
(* ClientError raises NetworkError, and each kind has no other cause.      *)
C16_HttpOutcomes ==
    \A c \in Calls :
        /\ post[c].n <= 1
        /\ httpApi # "root" => post[c].n = 0
        /\ (httpCalls[c] > 0 /\ httpApi = "noroot") => httpOut[c] = Unavailable
        /\ (post[c].res = "response" /\ ~(200 <= post[c].status /\ post[c].status < 300))
              => httpOut[c] = Out("HttpFailed", Null, post[c].status, "")
        /\ post[c].res \in {"InvalidURL", "ClientError"}
              => httpOut[c].kind = "NetworkError"
        /\ httpOut[c].kind = "ApiNotAvailable" => post[c].n = 0
        /\ httpOut[c].kind = "HttpFailed"
              => /\ post[c].res = "response"
                 /\ ~(200 <= post[c].status /\ post[c].status < 300)
        /\ httpOut[c].kind = "NetworkError"
              => post[c].res \in {"InvalidURL", "ClientError"}

C16_Witness ==
    \E c, d \in Calls :
        /\ post[c].n = 1
        /\ httpOut[c] = Out("HttpFailed", Null, 300, "")
        /\ httpOut[d] = UrlInvalid

(* What a reply can make a call end with. *)
ReplyOuts == {_handle_api_result(f) : f \in Frames}

(* C17: under a fair sender and deadline timer, every call of the          *)
(* WebSocket transport that has selected a connection eventually ends,     *)
(* and one that waits for its reply ends with what a reply holds or with   *)
(* the timeout failure (or is cancelled), whether or not replies arrive.   *)
C17_EventuallyCompletes ==
    \A c \in Calls :
        /\ (pc[c] \in {"wsr_send", "wsr_sent", "wsr_wait"}) ~> (wsrOut[c] # NoOut)
        /\ (pc[c] = "wsr_wait")
              ~> (wsrOut[c] \in ReplyOuts \cup {WsTimeout, Cancelled})

C17_Witness ==
    \E c, d \in Calls :
        /\ pc[c] = "done" /\ seq[c] # NoSeq /\ wsrOut[c] = WsTimeout
        /\ pc[d] = "done" /\ seq[d] # NoSeq /\ wsrOut[d] \in ReplyOuts

(* C18: with several calls pending, the future of a waiting call changes   *)
(* only by an add whose reply carries the call's own seq, which makes it   *)
(* done with a reply and leaves every other future and the store as they   *)
(* were; replies may come in any order.                                    *)
C18_ResolveOnlyOwner ==
    [][ \A c \in Calls :
          (pc[c] = "wsr_wait" /\ pc'[c] = "wsr_wait" /\ fut'[c] # fut[c]) =>
             /\ lastAdd' = [eff |-> "set_result", seq |-> seq[c]]
             /\ fut[c].state = "pending"
             /\ fut'[c].state = "done"
             /\ fut'[c].result \in Frames
             /\ _futures' = _futures
             /\ \A d \in Calls \ {c} : fut'[d] = fut[d] ]_vars

C18_Witness ==
    \E c, d \in Calls :
        /\ pc[c] = "wsr_wait" /\ pc[d] = "wsr_wait"
        /\ seq[c] < seq[d]
        /\ fut[c].state = "pending"
        /\ fut[d].state = "done"
        /\ lastAdd = [eff |-> "set_result", seq |-> seq[d]]

(* C19: a call of the WebSocket transport that raises ApiNotAvailable      *)
(* does so in its first step, before it has an id: that step sends no      *)
(* frame, leaves the counter where it was and changes neither the store    *)
(* nor any future.                                                         *)
C19_UnavailableNoEffect ==
    [][ \A c \in Calls :
          (wsrOut[c] # Unavailable /\ wsrOut'[c] = Unavailable) =>
             /\ pc[c] = "idle"
             /\ seq'[c] = NoSeq
             /\ _seq' = _seq
             /\ sent' = sent
             /\ _futures' = _futures
             /\ fut' = fut ]_vars

C19_Witness ==
    \E c, d \in Calls :
        /\ clients = {"1", "2"}
        /\ wsrOut[c] = Unavailable /\ seq[c] = NoSeq
        /\ pc[d] = "wsr_wait" /\ seq[d] = 1
        /\ _seq = 2 /\ sent = 1

(* C20: a call whose send raises, or whose task is cancelled before the    *)
(* send has returned to it, has no slot under its seq in the store and     *)
(* holds no future, before that step and after it.                         *)
C20_SendFailureLeavesNoSlot ==
    [][ \A c \in Calls :
          (pc[c] \in {"wsr_send", "wsr_sent"} /\ pc'[c] \notin {"wsr_sent", "wsr_wait"}
             /\ pc'[c] # pc[c]) =>
             /\ wsrOut'[c] \in {SendFailed, Cancelled}
             /\ seq[c] \notin DOMAIN _futures
             /\ seq'[c] \notin DOMAIN _futures'
             /\ fut'[c] = NoFuture ]_vars

C20_Witness ==
    \E c, d \in Calls :
        /\ wsrOut[c] = SendFailed /\ seq[c] # NoSeq
        /\ wsrOut[d] = Cancelled /\ seq[d] # NoSeq
        /\ sent = 0
        /\ _futures = <<>>

====
